---- MODULE Spec2Model ----
(***************************************************************************)
(* A model of the dexscreener feed decoder (piotrostr/moon).               *)
(*                                                                         *)
(*   message.go    the decoder: parseMessage and the UnmarshalBinary       *)
(*                 methods of the three message kinds and of a pair record *)
(*   main.go       (second program of the file, lines 182-398) the         *)
(*                 count-carrying variant of the decoder and the receive   *)
(*                 loop of main                                            *)
(*   websocket.go  connectWebSocket, the goroutine feeding main            *)
(*                                                                         *)
(* A byte is a number in 0..255.  A Go slice is a record [b, cap]: b the   *)
(* elements 0..len-1 (a TLA+ sequence, so element i is b[i+1]) and cap the *)
(* capacity of the backing array from the slice's first element.  uint32,  *)
(* uint64 are sequences of 16-bit words, most significant first; a float64 *)
(* is its IEEE-754 fields.                                                 *)
(***************************************************************************)
EXTENDS Integers, Sequences, FiniteSets, TLC

VARIABLES
    message,      \* the frame handed to parseMessage: a slice [b, cap]
    input,        \* how the frame was laid out (what the encoder was given)
    result,       \* what parseMessage returned: [fault, msg, err]
    pc,           \* position of the decode harness / of main
    record,       \* the pair record being round-tripped
    connPc,       \* position of the connectWebSocket goroutine
    messageChan,  \* the frame connectWebSocket is blocked sending, or <<>>
    errorChan,    \* the error connectWebSocket is blocked sending, or <<>>
    wire,         \* frames conn.ReadMessage returned so far, in order
    received,     \* frames main took from messageChan, in order
    handled,      \* outcome of parseMessage for each received frame, in order
    errorsSent    \* number of sends connectWebSocket started on errorChan

vars == <<message, input, result, pc, record, connPc, messageChan, errorChan,
          wire, received, handled, errorsSent>>

(***************************************************************************)
(* Go primitives                                                           *)
(***************************************************************************)

Min(a, b) == IF a < b THEN a ELSE b

\* A slice over fresh bytes with the given capacity.
MkSlice(bytes, capacity) == [b |-> bytes, cap |-> capacity]

\* The bounds rule of s[lo:hi]: 0 <= lo <= hi <= cap(s), else a run-time
\* panic.  Within the capacity but past len(s) the expression reads bytes
\* that are not part of the buffer ("overread").
Check(s, lo, hi) ==
    IF ~(0 <= lo /\ lo <= hi /\ hi <= s.cap) THEN "panic"
    ELSE IF hi > Len(s.b) THEN "overread"
    ELSE "ok"

\* s[lo:hi], for bounds Check found "ok".
Slice(s, lo, hi) == [b |-> SubSeq(s.b, lo + 1, hi), cap |-> s.cap - lo]

\* strings.IndexByte(s, c): index of the first c in s, or -1.
RECURSIVE IndexByteFrom(_, _, _)
IndexByteFrom(s, i, c) ==
    IF i > Len(s) THEN -1
    ELSE IF s[i] = c THEN i - 1
    ELSE IndexByteFrom(s, i + 1, c)

IndexByte(s, c) == IndexByteFrom(s, 1, c)

\* copy(dst, src) into an array dst: min(len) elements are overwritten.
Copy(dst, src) ==
    [i \in 1..Len(dst) |-> IF i <= Len(src) THEN src[i] ELSE dst[i]]

\* binary.LittleEndian.Uint32(b), b of at least 4 bytes: <<high, low>> words.
Uint32(b) == <<b[4] * 256 + b[3], b[2] * 256 + b[1]>>

\* binary.LittleEndian.Uint64(b), b of at least 8 bytes: four 16-bit words.
Uint64(b) ==
    <<b[8] * 256 + b[7], b[6] * 256 + b[5], b[4] * 256 + b[3], b[2] * 256 + b[1]>>

\* math.Float64frombits: sign bit, 11 exponent bits, 52 mantissa bits.
Float64frombits(u) ==
    [sign |-> u[1] \div 32768,
     exponent |-> (u[1] % 32768) \div 16,
     mantissa |-> <<u[1] % 16, u[2], u[3], u[4]>>]

ZeroBytes(n) == [i \in 1..n |-> 0]

ZeroFloat == Float64frombits(<<0, 0, 0, 0>>)

NilErr == [text |-> "nil", arg |-> -1]

\* errors.New(text)
Err(text) == [text |-> text, arg |-> -1]

\* fmt.Errorf(text, arg) with one %d verb
Errorf(text, arg) == [text |-> text, arg |-> arg]

(***************************************************************************)
(* message.go                                                              *)
(***************************************************************************)

LatestBlockHashMessageType == 2

PairsMessageType == 0

PingMessageType == 34

Nil == [type |-> "nil"]

ZeroPairData ==
    [PairAddress |-> ZeroBytes(32), UnknownData |-> ZeroBytes(32),
     TokenName |-> <<>>, TokenSymbol |-> <<>>, BaseTokenSymbol |-> <<>>,
     Price |-> ZeroFloat, Volume |-> ZeroFloat]

ZeroLatestBlockHashMessage ==
    [type |-> "LatestBlockHashMessage", Version |-> <<>>, Endpoint |-> <<>>,
     LatestBlock |-> <<0, 0>>, Hash |-> ZeroBytes(32)]

ZeroPairsMessage == [type |-> "PairsMessage", Version |-> <<>>, Pairs |-> <<>>]

ZeroPingMessage == [type |-> "PingMessage", Content |-> <<>>]

\* A method that stopped at a bounds fault: nothing is returned.
Fault(kind, m) == [fault |-> kind, m |-> m, err |-> NilErr]

Return(m, err) == [fault |-> "none", m |-> m, err |-> err]

\* PingMessage.UnmarshalBinary
PingMessage_UnmarshalBinary(data) ==
    Return([ZeroPingMessage EXCEPT !.Content = data.b], NilErr)

\* LatestBlockHashMessage.UnmarshalBinary
LatestBlockHashMessage_UnmarshalBinary(data) ==
    LET m0 == ZeroLatestBlockHashMessage
        n == Len(data.b)
    IN
    IF n < 36 THEN Return(m0, Err("insufficient data for LatestBlockHashMessage"))
    ELSE IF Check(data, 2, n) # "ok" THEN Fault(Check(data, 2, n), m0)
    ELSE
    LET versionEnd == IndexByte(Slice(data, 2, n).b, 0) IN
    IF versionEnd = -1 THEN Return(m0, Err("invalid version string"))
    ELSE IF Check(data, 2, 2 + versionEnd) # "ok"
    THEN Fault(Check(data, 2, 2 + versionEnd), m0)
    ELSE
    LET m1 == [m0 EXCEPT !.Version = Slice(data, 2, 2 + versionEnd).b]
        endpointStart == 2 + versionEnd + 1
    IN
    IF Check(data, endpointStart, n) # "ok"
    THEN Fault(Check(data, endpointStart, n), m1)
    ELSE
    LET endpointEnd == IndexByte(Slice(data, endpointStart, n).b, 0) IN
    IF endpointEnd # -1 /\ Check(data, endpointStart, endpointStart + endpointEnd) # "ok"
    THEN Fault(Check(data, endpointStart, endpointStart + endpointEnd), m1)
    ELSE
    LET m2 == [m1 EXCEPT !.Endpoint =
                  IF endpointEnd = -1 THEN <<>>
                  ELSE Slice(data, endpointStart, endpointStart + endpointEnd).b]
        hashStart == n - 36
    IN
    IF Check(data, hashStart, hashStart + 4) # "ok"
    THEN Fault(Check(data, hashStart, hashStart + 4), m2)
    ELSE IF Check(data, hashStart + 4, n) # "ok"
    THEN Fault(Check(data, hashStart + 4, n), m2)
    ELSE
    Return([m2 EXCEPT !.LatestBlock = Uint32(Slice(data, hashStart, hashStart + 4).b),
                      !.Hash = Copy(m2.Hash, Slice(data, hashStart + 4, n).b)],
           NilErr)

\* readString with its cursor left on the terminator instead of after it.
readString_onTerminator(data, current) ==
    LET n == Len(data.b) IN
    IF Check(data, current, n) # "ok"
    THEN [fault |-> Check(data, current, n), s |-> <<>>, next |-> 0, err |-> NilErr]
    ELSE
    LET end == IndexByte(Slice(data, current, n).b, 0) IN
    IF end = -1
    THEN [fault |-> "none", s |-> <<>>, next |-> 0, err |-> Err("invalid string")]
    ELSE [fault |-> "none", s |-> SubSeq(data.b, current + 1, current + end),
          next |-> current + end, err |-> NilErr]

\* The readString closure of PairData.UnmarshalBinary, reading at `current`.
readString(data, current) ==
    LET n == Len(data.b) IN
    IF Check(data, current, n) # "ok"
    THEN [fault |-> Check(data, current, n), s |-> <<>>, next |-> 0, err |-> NilErr]
    ELSE
    LET end == IndexByte(Slice(data, current, n).b, 0) IN
    IF end = -1
    THEN [fault |-> "none", s |-> <<>>, next |-> 0, err |-> Err("invalid string")]
    ELSE IF Check(data, current, current + end) # "ok"
    THEN [fault |-> Check(data, current, current + end), s |-> <<>>, next |-> 0,
          err |-> NilErr]
    ELSE [fault |-> "none", s |-> Slice(data, current, current + end).b,
          next |-> current + end + 1, err |-> NilErr]

PairFault(kind, p) == [fault |-> kind, n |-> 0, err |-> NilErr, p |-> p]

PairReturn(n, err, p) == [fault |-> "none", n |-> n, err |-> err, p |-> p]

\* Price and volume read without the 16-byte length check before them.
PairData_readPriceVolume_unchecked(data, current, p) ==
    LET n == Len(data.b) IN
    IF Check(data, current, n) # "ok" THEN PairFault(Check(data, current, n), p)
    ELSE IF n - current < 8 THEN PairFault("panic", p)
    ELSE IF Check(data, current + 8, n) # "ok"
    THEN PairFault(Check(data, current + 8, n), p)
    ELSE IF n - (current + 8) < 8 THEN PairFault("panic", p)
    ELSE PairReturn(current + 16, NilErr,
                    [p EXCEPT !.Price =
                         Float64frombits(Uint64(Slice(data, current, n).b)),
                              !.Volume =
                         Float64frombits(Uint64(Slice(data, current + 8, n).b))])

\* The tail of PairData.UnmarshalBinary: price and volume at `current`.
PairData_readPriceVolume(data, current, p) ==
    LET n == Len(data.b) IN
    IF Check(data, current, n) # "ok" THEN PairFault(Check(data, current, n), p)
    ELSE IF n - current < 16
    THEN PairReturn(0, Err("insufficient data for price and volume"), p)
    ELSE IF n - current < 8 THEN PairFault("panic", p)
    ELSE
    LET p1 == [p EXCEPT !.Price =
                  Float64frombits(Uint64(Slice(data, current, n).b))]
    IN
    IF Check(data, current + 8, n) # "ok"
    THEN PairFault(Check(data, current + 8, n), p1)
    ELSE IF n - (current + 8) < 8 THEN PairFault("panic", p1)
    ELSE PairReturn(current + 16, NilErr,
                    [p1 EXCEPT !.Volume =
                        Float64frombits(Uint64(Slice(data, current + 8, n).b))])

\* The body of PairData.UnmarshalBinary from `current` on: three strings,
\* then price and volume.  p is the receiver as filled so far.
PairData_readFields(data, current, p) ==
    LET r1 == readString(data, current)
        p2 == [p EXCEPT !.TokenName = r1.s]
    IN
    IF r1.fault # "none" THEN PairFault(r1.fault, p)
    ELSE IF r1.err # NilErr THEN PairReturn(0, r1.err, p2)
    ELSE
    LET r2 == readString(data, r1.next)
        p3 == [p2 EXCEPT !.TokenSymbol = r2.s]
    IN
    IF r2.fault # "none" THEN PairFault(r2.fault, p2)
    ELSE IF r2.err # NilErr THEN PairReturn(0, r2.err, p3)
    ELSE
    LET r3 == readString(data, r2.next)
        p4 == [p3 EXCEPT !.BaseTokenSymbol = r3.s]
    IN
    IF r3.fault # "none" THEN PairFault(r3.fault, p3)
    ELSE IF r3.err # NilErr THEN PairReturn(0, r3.err, p4)
    ELSE PairData_readPriceVolume(data, r3.next, p4)

\* PairData.UnmarshalBinary: (bytes consumed, error), and the receiver p.
PairData_UnmarshalBinary(data) ==
    LET p0 == ZeroPairData IN
    IF Len(data.b) < 64 THEN PairReturn(0, Err("insufficient data for PairData"), p0)
    ELSE IF Check(data, 0, 32) # "ok" THEN PairFault(Check(data, 0, 32), p0)
    ELSE IF Check(data, 32, 64) # "ok" THEN PairFault(Check(data, 32, 64), p0)
    ELSE PairData_readFields(data, 64,
             [p0 EXCEPT !.PairAddress = Copy(p0.PairAddress, Slice(data, 0, 32).b),
                        !.UnknownData = Copy(p0.UnknownData, Slice(data, 32, 64).b)])

\* The loop run while any byte is left (`len(pairsData) > 0`): a final
\* partial record is attempted.
RECURSIVE PairsMessage_loop_untilEmpty(_, _)
PairsMessage_loop_untilEmpty(pairsData, m) ==
    IF ~(Len(pairsData.b) > 0) THEN Return(m, NilErr)
    ELSE
    LET r == PairData_UnmarshalBinary(pairsData) IN
    IF r.fault # "none" THEN Fault(r.fault, m)
    ELSE IF r.err # NilErr THEN Return(m, r.err)
    ELSE IF Check(pairsData, r.n, Len(pairsData.b)) # "ok"
    THEN Fault(Check(pairsData, r.n, Len(pairsData.b)),
               [m EXCEPT !.Pairs = Append(m.Pairs, r.p)])
    ELSE PairsMessage_loop_untilEmpty(Slice(pairsData, r.n, Len(pairsData.b)),
                                      [m EXCEPT !.Pairs = Append(m.Pairs, r.p)])

\* The for loop of PairsMessage.UnmarshalBinary, m holding the pairs so far.
RECURSIVE PairsMessage_loop(_, _)
PairsMessage_loop(pairsData, m) ==
    IF ~(Len(pairsData.b) >= 64) THEN Return(m, NilErr)
    ELSE
    LET r == PairData_UnmarshalBinary(pairsData) IN
    IF r.fault # "none" THEN Fault(r.fault, m)
    ELSE IF r.err # NilErr THEN Return(m, r.err)
    ELSE IF Check(pairsData, r.n, Len(pairsData.b)) # "ok"
    THEN Fault(Check(pairsData, r.n, Len(pairsData.b)),
               [m EXCEPT !.Pairs = Append(m.Pairs, r.p)])
    ELSE PairsMessage_loop(Slice(pairsData, r.n, Len(pairsData.b)),
                           [m EXCEPT !.Pairs = Append(m.Pairs, r.p)])

\* The pair run started on the version's terminator (pairsStart one short).
PairsMessage_UnmarshalBinary_onTerminator(data) ==
    LET m0 == ZeroPairsMessage
        n == Len(data.b)
    IN
    IF n < 11 THEN Return(m0, Err("insufficient data for PairsMessage"))
    ELSE
    LET versionEnd == IndexByte(SubSeq(data.b, 3, n), 0) IN
    IF versionEnd = -1 THEN Return(m0, Err("invalid version string"))
    ELSE PairsMessage_loop(Slice(data, 2 + versionEnd, n),
                           [m0 EXCEPT !.Version = SubSeq(data.b, 3, 2 + versionEnd)])

\* PairsMessage.UnmarshalBinary
PairsMessage_UnmarshalBinary(data) ==
    LET m0 == ZeroPairsMessage
        n == Len(data.b)
    IN
    IF n < 11 THEN Return(m0, Err("insufficient data for PairsMessage"))
    ELSE IF Check(data, 2, n) # "ok" THEN Fault(Check(data, 2, n), m0)
    ELSE
    LET versionEnd == IndexByte(Slice(data, 2, n).b, 0) IN
    IF versionEnd = -1 THEN Return(m0, Err("invalid version string"))
    ELSE IF Check(data, 2, 2 + versionEnd) # "ok"
    THEN Fault(Check(data, 2, 2 + versionEnd), m0)
    ELSE
    LET m1 == [m0 EXCEPT !.Version = Slice(data, 2, 2 + versionEnd).b]
        pairsStart == 2 + versionEnd + 1
    IN
    IF Check(data, pairsStart, n) # "ok" THEN Fault(Check(data, pairsStart, n), m1)
    ELSE PairsMessage_loop(Slice(data, pairsStart, n), m1)

\* parseMessage without the ping case: the tag falls to the default arm.
parseMessage_withoutPing(msg) ==
    IF Len(msg.b) = 0 THEN [fault |-> "none", msg |-> Nil, err |-> Err("empty message")]
    ELSE IF msg.b[1] = LatestBlockHashMessageType
    THEN LET r == LatestBlockHashMessage_UnmarshalBinary(msg)
         IN [fault |-> r.fault, msg |-> r.m, err |-> r.err]
    ELSE IF msg.b[1] = PairsMessageType
    THEN LET r == PairsMessage_UnmarshalBinary(msg)
         IN [fault |-> r.fault, msg |-> r.m, err |-> r.err]
    ELSE [fault |-> "none", msg |-> Nil,
          err |-> Errorf("unknown message type: %d", msg.b[1])]

\* parseMessage of message.go: (interface{}, error).  A fault is a bounds
\* violation inside the call; msg is then whatever had been built.
parseMessage(msg) ==
    IF Len(msg.b) = 0 THEN [fault |-> "none", msg |-> Nil, err |-> Err("empty message")]
    ELSE
    LET msgType == msg.b[1]
        dump == Check(msg, 0, Min(20, Len(msg.b)))
    IN
    IF dump # "ok" THEN [fault |-> dump, msg |-> Nil, err |-> NilErr]
    ELSE IF msgType = LatestBlockHashMessageType
    THEN LET r == LatestBlockHashMessage_UnmarshalBinary(msg)
         IN [fault |-> r.fault, msg |-> r.m, err |-> r.err]
    ELSE IF msgType = PairsMessageType
    THEN LET r == PairsMessage_UnmarshalBinary(msg)
         IN [fault |-> r.fault, msg |-> r.m, err |-> r.err]
    ELSE IF msgType = PingMessageType
    THEN LET r == PingMessage_UnmarshalBinary(msg)
         IN [fault |-> r.fault, msg |-> r.m, err |-> r.err]
    ELSE [fault |-> "none", msg |-> Nil,
          err |-> Errorf("unknown message type: %d", msg.b[1])]

(***************************************************************************)
(* main.go, the second program of the file (lines 182-398): the            *)
(* count-carrying variant.  Its LatestBlockHashMessage.UnmarshalBinary     *)
(* (229-253) and the readString/price/volume part of its                   *)
(* PairData.UnmarshalBinary (283-321) are, line for line, those of         *)
(* message.go.                                                             *)
(***************************************************************************)

main_ZeroPairsMessage ==
    [type |-> "PairsMessage", Version |-> <<>>, PairsCount |-> <<0, 0>>,
     RawPairsData |-> MkSlice(<<>>, 0)]

main_ZeroPairData ==
    [PairAddress |-> <<>>, TokenName |-> <<>>, TokenSymbol |-> <<>>,
     BaseTokenSymbol |-> <<>>, Price |-> ZeroFloat, Volume |-> ZeroFloat]

main_LatestBlockHashMessage_UnmarshalBinary(data) ==
    LatestBlockHashMessage_UnmarshalBinary(data)

\* PairsMessage.UnmarshalBinary: the count, then the rest as raw pair data.
\* data[pairsStart:pairsStart+4] is bounded by the capacity; with fewer than
\* 4 bytes left it panics or reads past the frame, and data[pairsStart+4:]
\* then has its low bound above len(data) and panics.
main_PairsMessage_UnmarshalBinary(data) ==
    LET m0 == main_ZeroPairsMessage
        n == Len(data.b)
    IN
    IF n < 11 THEN Return(m0, Err("insufficient data for PairsMessage"))
    ELSE IF Check(data, 2, n) # "ok" THEN Fault(Check(data, 2, n), m0)
    ELSE
    LET versionEnd == IndexByte(Slice(data, 2, n).b, 0) IN
    IF versionEnd = -1 THEN Return(m0, Err("invalid version string"))
    ELSE IF Check(data, 2, 2 + versionEnd) # "ok"
    THEN Fault(Check(data, 2, 2 + versionEnd), m0)
    ELSE
    LET m1 == [m0 EXCEPT !.Version = Slice(data, 2, 2 + versionEnd).b]
        pairsStart == 2 + versionEnd + 1
    IN
    IF Check(data, pairsStart, pairsStart + 4) = "panic" THEN Fault("panic", m1)
    ELSE IF Check(data, pairsStart + 4, n) # "ok"
    THEN Fault(Check(data, pairsStart + 4, n), m1)
    ELSE Return([m1 EXCEPT
                    !.PairsCount = Uint32(Slice(data, pairsStart, pairsStart + 4).b),
                    !.RawPairsData = Slice(data, pairsStart + 4, n)],
                NilErr)

\* PairData.UnmarshalBinary: a 32-byte address, then the fields.
main_PairData_UnmarshalBinary(data) ==
    LET p0 == main_ZeroPairData IN
    IF Len(data.b) < 64 THEN PairReturn(0, Err("insufficient data for PairData"), p0)
    ELSE IF Check(data, 0, 32) # "ok" THEN PairFault(Check(data, 0, 32), p0)
    ELSE PairData_readFields(data, 32,
             [p0 EXCEPT !.PairAddress = Copy(ZeroBytes(32), Slice(data, 0, 32).b)])

\* PingMessage.UnmarshalBinary: the bytes after the tag.
main_PingMessage_UnmarshalBinary(data) ==
    IF Check(data, 1, Len(data.b)) # "ok"
    THEN Fault(Check(data, 1, Len(data.b)), ZeroPingMessage)
    ELSE Return([ZeroPingMessage EXCEPT !.Content = Slice(data, 1, Len(data.b)).b],
                NilErr)

\* parseMessage.  message[:20] is bounded by the capacity: on a frame under
\* 20 bytes it panics when the buffer has no room for 20, and otherwise
\* prints bytes past the frame.
main_parseMessage(msg) ==
    IF Len(msg.b) = 0 THEN [fault |-> "none", msg |-> Nil, err |-> Err("empty message")]
    ELSE IF Check(msg, 0, 20) = "panic" THEN [fault |-> "panic", msg |-> Nil, err |-> NilErr]
    ELSE IF msg.b[1] = LatestBlockHashMessageType
    THEN LET r == main_LatestBlockHashMessage_UnmarshalBinary(msg)
         IN [fault |-> r.fault, msg |-> r.m, err |-> r.err]
    ELSE IF msg.b[1] = PairsMessageType
    THEN LET r == main_PairsMessage_UnmarshalBinary(msg)
         IN [fault |-> r.fault, msg |-> r.m, err |-> r.err]
    ELSE IF msg.b[1] = PingMessageType
    THEN LET r == main_PingMessage_UnmarshalBinary(msg)
         IN [fault |-> r.fault, msg |-> r.m, err |-> r.err]
    ELSE [fault |-> "none", msg |-> Nil,
          err |-> Errorf("unknown message type: %d", msg.b[1])]

\* The body of `case message := <-messageChan` in main: parse, then print.
\* printed is what went to standard output; a fault ends the process.
main_handleMessage(msg) ==
    LET r == main_parseMessage(msg) IN
    IF r.fault # "none" THEN [fault |-> r.fault, printed |-> <<>>]
    ELSE IF r.err # NilErr
    THEN [fault |-> "none", printed |-> <<"Error parsing message:", r.err.text>>]
    ELSE IF r.msg.type = "LatestBlockHashMessage"
    THEN [fault |-> "none", printed |-> <<"Received latest block hash">>]
    ELSE IF r.msg.type = "PairsMessage"
    THEN IF Len(r.msg.RawPairsData.b) > 0
         THEN LET pr == main_PairData_UnmarshalBinary(r.msg.RawPairsData) IN
              IF pr.fault # "none" THEN [fault |-> pr.fault, printed |-> <<>>]
              ELSE IF pr.err # NilErr
              THEN [fault |-> "none",
                    printed |-> <<"Received pairs message",
                                  "Error parsing first pair:", pr.err.text>>]
              ELSE [fault |-> "none",
                    printed |-> <<"Received pairs message", "First pair">>]
         ELSE [fault |-> "none", printed |-> <<"Received pairs message">>]
    ELSE IF r.msg.type = "PingMessage"
    THEN [fault |-> "none", printed |-> <<"Received ping message">>]
    ELSE [fault |-> "none", printed |-> <<"Received unknown message type">>]

(***************************************************************************)
(* The wire layout, written out: the inverse of the decoder, used to lay   *)
(* out the frames the decoder is run on.                                   *)
(***************************************************************************)

\* binary.LittleEndian.PutUint64 of four 16-bit words: 8 bytes.
PutUint64(u) ==
    <<u[4] % 256, u[4] \div 256, u[3] % 256, u[3] \div 256,
      u[2] % 256, u[2] \div 256, u[1] % 256, u[1] \div 256>>

\* binary.LittleEndian.PutUint32 of two 16-bit words: 4 bytes.
PutUint32(u) == <<u[2] % 256, u[2] \div 256, u[1] % 256, u[1] \div 256>>

\* math.Float64bits
Float64bits(f) ==
    <<f.sign * 32768 + f.exponent * 16 + f.mantissa[1],
      f.mantissa[2], f.mantissa[3], f.mantissa[4]>>

\* address, secondary field, three null-terminated strings, price, volume.
EncodePairRecord(p) ==
    p.PairAddress \o p.UnknownData
        \o p.TokenName \o <<0>> \o p.TokenSymbol \o <<0>> \o p.BaseTokenSymbol \o <<0>>
        \o PutUint64(Float64bits(p.Price)) \o PutUint64(Float64bits(p.Volume))

RECURSIVE EncodePairRun(_)
EncodePairRun(ps) ==
    IF ps = <<>> THEN <<>> ELSE EncodePairRecord(Head(ps)) \o EncodePairRun(Tail(ps))

\* tag, one byte the decoder skips, version, terminator, the pair run, leftover.
EncodePairsFrame(version, ps, tail) ==
    <<PairsMessageType, 1>> \o version \o <<0>> \o EncodePairRun(ps) \o tail

\* tag, skipped byte, version, optional endpoint, then the 36-byte trailer.
EncodeBlockFrame(version, hasEndpoint, endpoint, block, hash) ==
    <<LatestBlockHashMessageType, 1>> \o version \o <<0>>
        \o (IF hasEndpoint THEN endpoint \o <<0>> ELSE <<>>)
        \o PutUint32(block) \o hash

EncodeTagged(tag, content) == <<tag>> \o content

(***************************************************************************)
(* Inputs                                                                  *)
(***************************************************************************)

\* Most pair records in one laid-out pairs frame.
MaxPairs == 2

\* Bytes of filler laid after the pair run of a frame.
MaxLeftover == 64

\* Longest string field of a round-tripped record.
MaxStrLen == 2

\* Most frames the connection delivers before it fails.
MaxFrames == 3

\* Spare capacity the connection's buffer may have past a frame's length.
SpareCap == 32

Fill(n, v) == [i \in 1..n |-> v]

Ramp(n, from) == [i \in 1..n |-> from + i]

SeqsUpTo(S, n) == UNION {[1..k -> S] : k \in 0..n}

Pong == <<112, 111, 110, 103>>

\* 0: every bit clear.  A quiet NaN with a payload.  -100.something, no zero byte.
Floats ==
    {Float64frombits(<<0, 0, 0, 0>>),
     Float64frombits(<<32760, 0, 0, 1>>),
     Float64frombits(<<49241, 258, 772, 1286>>)}

\* The all-zero record with three empty strings: 83 zero bytes on the wire.
PairZero == ZeroPairData

PairFull ==
    [PairAddress |-> Ramp(32, 0), UnknownData |-> Fill(32, 255),
     TokenName |-> <<65, 66>>, TokenSymbol |-> <<>>, BaseTokenSymbol |-> <<67>>,
     Price |-> Float64frombits(<<49241, 258, 772, 1286>>),
     Volume |-> Float64frombits(<<32760, 0, 0, 1>>)]

Versions == {<<49>>, <<>>}

PairsLayouts ==
    {[kind |-> "pairs", version |-> v, pairs |-> ps, tail |-> Fill(MaxLeftover, 65),
      mode |-> "whole", cut |-> 0]
        : v \in Versions, ps \in SeqsUpTo({PairZero, PairFull}, MaxPairs)}

BlockLayouts ==
    {[kind |-> "block", version |-> v, hasEndpoint |-> e[1], endpoint |-> e[2],
      block |-> k, hash |-> h, mode |-> "whole", cut |-> 0]
        : v \in Versions,
          e \in {<<FALSE, <<>> >>, <<TRUE, <<>> >>, <<TRUE, <<69, 80>> >>},
          k \in {<<0, 0>>, <<0, 1>>, <<258, 772>>},
          h \in {Fill(32, 0), Ramp(32, 100)}}

TaggedLayouts ==
    {[kind |-> "tagged", tag |-> t, content |-> c, mode |-> "whole", cut |-> 0]
        : t \in {PingMessageType, 1, 255}, c \in {<<>>, Pong, <<0, 65, 0>>}}

Layouts == PairsLayouts \cup BlockLayouts \cup TaggedLayouts

Encode(l) ==
    IF l.kind = "pairs" THEN EncodePairsFrame(l.version, l.pairs, l.tail)
    ELSE IF l.kind = "block"
    THEN EncodeBlockFrame(l.version, l.hasEndpoint, l.endpoint, l.block, l.hash)
    ELSE EncodeTagged(l.tag, l.content)

NoResult == [fault |-> "none", msg |-> Nil, err |-> NilErr]

NoSlice == MkSlice(<<>>, 0)

\* The variables a specification does not use stay as they are here.
IdleDecode ==
    /\ message = NoSlice /\ input = [kind |-> "none"] /\ result = NoResult

IdlePair == record = ZeroPairData

IdleMain ==
    /\ connPc = "off" /\ messageChan = <<>> /\ errorChan = <<>>
    /\ wire = <<>> /\ received = <<>> /\ handled = <<>> /\ errorsSent = 0

mainVars == <<connPc, messageChan, errorChan, wire, received, handled, errorsSent>>

(***************************************************************************)
(* Spec: parseMessage of message.go run on laid-out frames, on every       *)
(* prefix of one and on every one-byte change of one.                      *)
(***************************************************************************)

Init ==
    /\ \E l \in Layouts :
        /\ input = l
        /\ message = MkSlice(Encode(l), Len(Encode(l)))
    /\ result = NoResult
    /\ pc = "frame"
    /\ IdlePair
    /\ IdleMain

\* The first n bytes of the frame: resliced in place (the capacity stays) or
\* copied to a buffer of its own.
Truncate ==
    /\ pc = "frame"
    /\ \E n \in 0..(Len(message.b) - 1) :
        /\ \E capacity \in {n, message.cap} :
            message' = MkSlice(SubSeq(message.b, 1, n), capacity)
        /\ input' = [input EXCEPT !.mode = "cut", !.cut = n]
    /\ pc' = "ready"
    /\ UNCHANGED <<result, record, mainVars>>

\* One byte of the frame overwritten.
Corrupt ==
    /\ pc = "frame"
    /\ \E i \in 1..Len(message.b), v \in {0, 255} :
        /\ message.b[i] # v
        /\ message' = [message EXCEPT !.b[i] = v]
        /\ input' = [input EXCEPT !.mode = "changed", !.cut = i - 1]
    /\ pc' = "ready"
    /\ UNCHANGED <<result, record, mainVars>>

Parse ==
    /\ pc \in {"frame", "ready"}
    /\ result' = parseMessage(message)
    /\ pc' = "parsed"
    /\ UNCHANGED <<message, input, record, mainVars>>

Next == Truncate \/ Corrupt \/ Parse

Spec == Init /\ [][Next]_vars

(***************************************************************************)
(* Claims about parseMessage of message.go (Spec)                          *)
(***************************************************************************)

Parsed == pc = "parsed"

KnownTags == {LatestBlockHashMessageType, PairsMessageType, PingMessageType}

TagOf(bytes) == bytes[1]

\* The frame in hand is tag, skipped byte, version, terminator, the pair
\* records of input.pairs back to back, and fewer than 64 leftover bytes.
Leftover ==
    Len(message.b) - (3 + Len(input.version)) - Len(EncodePairRun(input.pairs))

CountFreeRun ==
    /\ input.kind = "pairs"
    /\ input.mode \in {"whole", "cut"}
    /\ Leftover >= 0
    /\ Leftover < 64

\* C1: whatever the buffer (laid-out frames, every prefix of one, every
\* one-byte change of one; capacity equal to or above the length),
\* parseMessage uses no index or slice bound outside 0..len(buffer): it ends
\* with a decoded message or an error and never with a bounds fault.
C1_NoOutOfRangeRead ==
    Parsed => /\ result.fault = "none"
              /\ (result.msg # Nil \/ result.err # NilErr)

\* A pairs frame cut inside the price of a record, in a buffer with no spare
\* capacity, was decoded.
C1_Witness ==
    /\ Parsed
    /\ input.kind = "pairs" /\ input.mode = "cut"
    /\ message.cap = Len(message.b)
    /\ result.fault = "none"
    /\ result.err = Err("insufficient data for price and volume")

\* C2: a frame with the ping tag decodes without error to a Heartbeat whose
\* content is exactly the bytes after the tag byte.
C2_PingContentAfterTag ==
    (Parsed /\ Len(message.b) > 0 /\ TagOf(message.b) = PingMessageType)
        => /\ result.fault = "none"
           /\ result.err = NilErr
           /\ result.msg.type = "PingMessage"
           /\ result.msg.Content = SubSeq(message.b, 2, Len(message.b))

C4_AllOrNothing ==
    (Parsed /\ result.fault = "none" /\ result.err # NilErr
        /\ result.msg.type = "PairsMessage")
        => result.msg.Pairs = <<>>

\* C6: a block-heartbeat frame of at least 36 bytes that decodes has its
\* trailer in its last 36 bytes, and Version and Endpoint lie wholly before
\* the trailer; a shorter frame fails with the insufficient-data error.
C6_TrailerEndAnchored ==
    (Parsed /\ Len(message.b) > 0 /\ TagOf(message.b) = LatestBlockHashMessageType)
        => LET n == Len(message.b)
               m == result.msg
           IN /\ result.fault = "none"
              /\ n < 36 =>
                    result.err = Err("insufficient data for LatestBlockHashMessage")
              /\ (n >= 36 /\ result.err = NilErr) =>
                    /\ m.LatestBlock = Uint32(SubSeq(message.b, n - 35, n - 32))
                    /\ m.Hash = SubSeq(message.b, n - 31, n)
                    /\ m.Version # <<>> => 2 + Len(m.Version) <= n - 36
                    /\ m.Endpoint # <<>> =>
                          2 + Len(m.Version) + 1 + Len(m.Endpoint) <= n - 36

\* Offset, within the pair run, of record i of ps.
RunOffset(ps, i) == Len(EncodePairRun(SubSeq(ps, 1, i - 1)))

C9_Dispatch ==
    Parsed =>
        LET n == Len(message.b) IN
        /\ (result.msg = Nil) <=> (n = 0 \/ TagOf(message.b) \notin KnownTags)
        /\ n = 0 => result.err = Err("empty message")
        /\ (n > 0 /\ TagOf(message.b) \notin KnownTags) =>
              result.err = Errorf("unknown message type: %d", TagOf(message.b))
        /\ (n > 0 /\ TagOf(message.b) = LatestBlockHashMessageType) =>
              result.msg.type = "LatestBlockHashMessage"
        /\ (n > 0 /\ TagOf(message.b) = PairsMessageType) =>
              result.msg.type = "PairsMessage"
        /\ (n > 0 /\ TagOf(message.b) = PingMessageType) =>
              result.msg.type = "PingMessage"

\* A frame with tag 0xFF was refused with the tag in the error.
C9_Witness ==
    /\ Parsed /\ Len(message.b) > 0 /\ TagOf(message.b) = 255
    /\ result.msg = Nil /\ result.err.arg = 255

(***************************************************************************)
(* SpecPair: a pair record written in the wire layout and read back by     *)
(* PairData.UnmarshalBinary of message.go.                                 *)
(***************************************************************************)

Strings == SeqsUpTo({65, 255}, MaxStrLen)

PairRecords ==
    {[PairAddress |-> a[1], UnknownData |-> a[2],
      TokenName |-> n, TokenSymbol |-> y, BaseTokenSymbol |-> b,
      Price |-> f[1], Volume |-> f[2]]
        : a \in {<<Fill(32, 0), Ramp(32, 0)>>, <<Ramp(32, 200), Fill(32, 0)>>},
          n \in Strings, y \in Strings, b \in Strings,
          f \in {<<x, y2>> \in Floats \X Floats : x # y2 \/ x = ZeroFloat}}

\* What may follow the record in the buffer: nothing, or the next record.
Followers == {<<>>, EncodePairRecord(PairFull)}

InitPair ==
    /\ record \in PairRecords
    /\ message = NoSlice
    /\ input = [kind |-> "record"]
    /\ result = NoResult
    /\ pc = "record"
    /\ IdleMain

EncodeRecord ==
    /\ pc = "record"
    /\ \E follower \in Followers :
        message' = MkSlice(EncodePairRecord(record) \o follower,
                           Len(EncodePairRecord(record) \o follower))
    /\ pc' = "encoded"
    /\ UNCHANGED <<input, result, record, mainVars>>

DecodeRecord ==
    /\ pc = "encoded"
    /\ result' = PairData_UnmarshalBinary(message)
    /\ pc' = "decoded"
    /\ UNCHANGED <<message, input, record, mainVars>>

NextPair == EncodeRecord \/ DecodeRecord

SpecPair == InitPair /\ [][NextPair]_vars

\* C8: a record whose strings hold no zero byte, written as address,
\* secondary field, three null-terminated strings, price and volume (8
\* little-endian bytes each), decodes to the same record field for field, and
\* the bytes consumed are the encoded length 64 + the string lengths + 3 + 16.
C8_RoundTrip ==
    pc = "decoded" =>
        /\ result.fault = "none"
        /\ result.err = NilErr
        /\ result.p = record
        /\ result.n = 64 + Len(record.TokenName) + Len(record.TokenSymbol)
                         + Len(record.BaseTokenSymbol) + 3 + 16
        /\ result.n = Len(EncodePairRecord(record))

\* A record with an empty symbol between two non-empty strings and a NaN
\* price, followed by another record, was read back.
C8_Witness ==
    /\ pc = "decoded"
    /\ record.TokenSymbol = <<>> /\ record.TokenName # <<>>
    /\ record.BaseTokenSymbol # <<>>
    /\ record.Price.exponent = 2047
    /\ Len(message.b) > Len(EncodePairRecord(record))
    /\ result.p = record

(***************************************************************************)
(* SpecMain: connectWebSocket (websocket.go) and the receive loop of main  *)
(* (main.go 355-398) over the two unbuffered channels.                     *)
(***************************************************************************)

\* The main.go layout of a pair record: no secondary field.
main_EncodePairRecord(p) ==
    p.PairAddress
        \o p.TokenName \o <<0>> \o p.TokenSymbol \o <<0>> \o p.BaseTokenSymbol \o <<0>>
        \o PutUint64(Float64bits(p.Price)) \o PutUint64(Float64bits(p.Volume))

\* Frames the connection may deliver.
\* The empty frame; pairs frames with nothing after the version string (11
\* and 20 bytes); pings under and over 20 bytes; a pairs frame with a count
\* and two records, and one with a count and 12 bytes; block heartbeats of
\* 40 and 20 bytes; an unknown tag.
MainFrames ==
    {<<>>,
     <<PairsMessageType, 1>> \o Fill(8, 65) \o <<0>>,
     <<PairsMessageType, 1>> \o Fill(17, 65) \o <<0>>,
     <<PingMessageType>> \o Pong \o Pong \o Pong,
     <<PingMessageType>> \o Fill(19, 112),
     <<PairsMessageType, 1, 49, 0>> \o PutUint32(<<0, 2>>)
         \o main_EncodePairRecord(PairFull) \o main_EncodePairRecord(PairZero),
     <<PairsMessageType, 1, 49, 0>> \o PutUint32(<<0, 1>>) \o Fill(12, 7),
     EncodeBlockFrame(<<49>>, TRUE, <<>>, <<0, 1>>, Ramp(32, 100)),
     Fill(20, LatestBlockHashMessageType),
     Fill(20, 255)}

ProcessRunning == pc \in {"select", "handle"}

InitMain ==
    /\ pc = "select"
    /\ connPc = "dial"
    /\ messageChan = <<>>
    /\ errorChan = <<>>
    /\ wire = <<>>
    /\ received = <<>>
    /\ handled = <<>>
    /\ errorsSent = 0
    /\ IdleDecode
    /\ IdlePair

\* dialer.Dial succeeds.
DialOk ==
    /\ ProcessRunning /\ connPc = "dial"
    /\ connPc' = "read"
    /\ UNCHANGED <<message, input, result, pc, record, messageChan, errorChan,
                   wire, received, handled, errorsSent>>

\* dialer.Dial fails: errorChan <- "WebSocket connection error" blocks.
DialFail ==
    /\ ProcessRunning /\ connPc = "dial"
    /\ errorChan' = <<"WebSocket connection error">>
    /\ errorsSent' = errorsSent + 1
    /\ connPc' = "sendError"
    /\ UNCHANGED <<message, input, result, pc, record, messageChan, wire,
                   received, handled>>

\* conn.ReadMessage returns a frame: messageChan <- message blocks.
ReadMessage ==
    /\ ProcessRunning /\ connPc = "read"
    /\ Len(wire) < MaxFrames
    /\ \E f \in MainFrames, spare \in {0, SpareCap} :
        /\ messageChan' = <<MkSlice(f, Len(f) + spare)>>
        /\ wire' = Append(wire, MkSlice(f, Len(f) + spare))
    /\ connPc' = "sendMessage"
    /\ UNCHANGED <<message, input, result, pc, record, errorChan, received,
                   handled, errorsSent>>

\* conn.ReadMessage fails: errorChan <- "WebSocket read error" blocks.
ReadError ==
    /\ ProcessRunning /\ connPc = "read"
    /\ errorChan' = <<"WebSocket read error">>
    /\ errorsSent' = errorsSent + 1
    /\ connPc' = "sendError"
    /\ UNCHANGED <<message, input, result, pc, record, messageChan, wire,
                   received, handled>>

\* select takes `case message := <-messageChan`; the send completes and
\* connectWebSocket goes on to its next read.
ReceiveMessage ==
    /\ pc = "select" /\ connPc = "sendMessage"
    /\ message' = messageChan[1]
    /\ received' = Append(received, messageChan[1])
    /\ messageChan' = <<>>
    /\ connPc' = "read"
    /\ pc' = "handle"
    /\ UNCHANGED <<input, result, record, errorChan, wire, handled, errorsSent>>

\* The body of the case: parseMessage and the printing.  A panic in it is
\* not recovered anywhere and ends the process.
HandleMessage ==
    /\ pc = "handle"
    /\ LET h == main_handleMessage(message) IN
        IF h.fault = "none"
        THEN /\ handled' = Append(handled, h.printed)
             /\ pc' = "select"
        ELSE /\ handled' = handled
             /\ pc' = IF h.fault = "panic" THEN "panicked" ELSE "overread"
    /\ UNCHANGED <<message, input, result, record, connPc, messageChan,
                   errorChan, wire, received, errorsSent>>

\* select takes `case err := <-errorChan`: main logs and returns, which ends
\* the process; connectWebSocket returns from its send.
ReceiveError ==
    /\ pc = "select" /\ connPc = "sendError"
    /\ errorChan' = <<>>
    /\ connPc' = "done"
    /\ pc' = "returned"
    /\ UNCHANGED <<message, input, result, record, messageChan, wire, received,
                   handled, errorsSent>>

NextMain ==
    \/ DialOk \/ DialFail \/ ReadMessage \/ ReadError
    \/ ReceiveMessage \/ HandleMessage \/ ReceiveError

SpecMain == InitMain /\ [][NextMain]_vars

\* Some step of NextMain can be taken: the guards of its actions.
SomeStepEnabled ==
    \/ ProcessRunning /\ connPc \in {"dial", "read"}
    \/ pc = "select" /\ connPc \in {"sendMessage", "sendError"}
    \/ pc = "handle"

\* C5: in the receive loop of main.go a frame whose decode fails only
\* produces a logged error: decoding never ends the process, every frame
\* main received has been handled when main is back at its select, and main
\* leaves the loop only by receiving from the error channel.
C5_DecodeFailureIsLoggedOnly ==
    /\ pc \in {"select", "handle", "returned"}
    /\ pc \in {"select", "returned"} => Len(handled) = Len(received)
    /\ pc = "returned" => connPc = "done"

\* C10: main receives the frames in the order the connection read them, none
\* lost or duplicated; connectWebSocket starts at most one error send and no
\* frame send after it; no goroutine is stuck while the other runs; and the
\* process ends only by main having received that error and returned.
C10_HandOff ==
    /\ Len(received) <= Len(wire)
    /\ received = SubSeq(wire, 1, Len(received))
    /\ Len(wire) - Len(received) = (IF connPc = "sendMessage" THEN 1 ELSE 0)
    /\ errorsSent <= 1
    /\ errorsSent = 1 => (connPc \in {"sendError", "done"} /\ messageChan = <<>>)
    /\ ProcessRunning => SomeStepEnabled
    /\ ~ProcessRunning => (pc = "returned" /\ connPc = "done" /\ received = wire)

\* The hand-off alone, whatever main does with a frame.
HandOffOrder ==
    /\ Len(received) <= Len(wire)
    /\ received = SubSeq(wire, 1, Len(received))
    /\ Len(wire) - Len(received) = (IF connPc = "sendMessage" THEN 1 ELSE 0)
    /\ errorsSent <= 1
    /\ errorsSent = 1 => (connPc \in {"sendError", "done"} /\ messageChan = <<>>)
    /\ ProcessRunning => SomeStepEnabled
    /\ pc # "overread"

====
